---- MODULE Spec2Model ----
(***************************************************************************)
(* Transform nodes of ratcave (src/ratcave/physical.py): Physical keeps a  *)
(* position, a rotation and a scale and derives model/view/normal          *)
(* matrices from them in update(); PhysicalNode composes them with the     *)
(* parent's global matrices.                                               *)
(*                                                                         *)
(* Matrices are 4x4 matrices of rationals kept exactly: a record           *)
(* [n |-> rows of integers, d |-> common denominator > 0] in lowest terms. *)
(* The inputs are integers, quarter turns and powers of two, for which the *)
(* float64 arithmetic of numpy is exact as well.                           *)
(***************************************************************************)
EXTENDS Integers, Sequences, FiniteSets, TLC

\* Budget of setter and reparenting calls in one behaviour.
MaxOps == 2

\* Node names.
Nodes == {1, 2, 3}

\* parent of a root (Python None)
None == 0

----------------------------------------------------------------------------
(* Exact 4x4 matrix arithmetic (numpy arrays, np.dot, ndarray.T).          *)

Abs(x) == IF x < 0 THEN -x ELSE x

RECURSIVE GCD(_, _)
GCD(a, b) == IF b = 0 THEN a ELSE GCD(b, a % b)

RowGCD(r) == GCD(GCD(Abs(r[1]), Abs(r[2])), GCD(Abs(r[3]), Abs(r[4])))

RowsGCD(rows) == GCD(GCD(RowGCD(rows[1]), RowGCD(rows[2])),
                     GCD(RowGCD(rows[3]), RowGCD(rows[4])))

ReduceRow(r, sg, g) ==
    <<(sg * r[1]) \div g, (sg * r[2]) \div g, (sg * r[3]) \div g, (sg * r[4]) \div g>>

\* rows/den with the common factor g taken out and the denominator positive
Reduce(rows, den, sg, g) ==
    [n |-> <<ReduceRow(rows[1], sg, g), ReduceRow(rows[2], sg, g),
             ReduceRow(rows[3], sg, g), ReduceRow(rows[4], sg, g)>>,
     d |-> Abs(den) \div g]

\* rows/den in lowest terms
MkMat(rows, den) ==
    Reduce(rows, den, IF den < 0 THEN -1 ELSE 1, GCD(Abs(den), RowsGCD(rows)))

IntMat(rows) == [n |-> rows, d |-> 1]

\* np.zeros((4, 4))
Zeros == IntMat(<< <<0,0,0,0>>, <<0,0,0,0>>, <<0,0,0,0>>, <<0,0,0,0>> >>)

\* np.eye(4)
Eye == IntMat(<< <<1,0,0,0>>, <<0,1,0,0>>, <<0,0,1,0>>, <<0,0,0,1>> >>)

DotEntry(A, B, i, j) ==
    A.n[i][1] * B.n[1][j] + A.n[i][2] * B.n[2][j] + A.n[i][3] * B.n[3][j] + A.n[i][4] * B.n[4][j]

DotRow(A, B, i) ==
    <<DotEntry(A, B, i, 1), DotEntry(A, B, i, 2), DotEntry(A, B, i, 3), DotEntry(A, B, i, 4)>>

\* np.dot(A, B)
Dot(A, B) ==
    MkMat(<<DotRow(A, B, 1), DotRow(A, B, 2), DotRow(A, B, 3), DotRow(A, B, 4)>>, A.d * B.d)

Column(A, j) == <<A.n[1][j], A.n[2][j], A.n[3][j], A.n[4][j]>>

\* A.T
Transpose(A) ==
    [n |-> <<Column(A, 1), Column(A, 2), Column(A, 3), Column(A, 4)>>, d |-> A.d]

Skip(i) == CASE i = 1 -> <<2, 3, 4>>
             [] i = 2 -> <<1, 3, 4>>
             [] i = 3 -> <<1, 2, 4>>
             [] OTHER -> <<1, 2, 3>>

\* determinant of rows r and columns c (three of each) of the integer rows R
Det3(R, r, c) ==
      R[r[1]][c[1]] * (R[r[2]][c[2]] * R[r[3]][c[3]] - R[r[2]][c[3]] * R[r[3]][c[2]])
    - R[r[1]][c[2]] * (R[r[2]][c[1]] * R[r[3]][c[3]] - R[r[2]][c[3]] * R[r[3]][c[1]])
    + R[r[1]][c[3]] * (R[r[2]][c[1]] * R[r[3]][c[2]] - R[r[2]][c[2]] * R[r[3]][c[1]])

\* determinant of the 3x3 minor of R that drops row i and column j
Minor(R, i, j) == Det3(R, Skip(i), Skip(j))

Sign(i, j) == IF (i + j) % 2 = 0 THEN 1 ELSE -1

\* determinant of the integer rows of A (the matrix is A.n / A.d)
Det(A) ==   A.n[1][1] * Minor(A.n, 1, 1) - A.n[1][2] * Minor(A.n, 1, 2)
          + A.n[1][3] * Minor(A.n, 1, 3) - A.n[1][4] * Minor(A.n, 1, 4)

\* numpy.linalg.inv raises LinAlgError on a singular matrix
IsSingular(A) == Det(A) = 0

\* row i of d * adj(N)
AdjRow(A, i) ==
    <<A.d * Sign(i, 1) * Minor(A.n, 1, i), A.d * Sign(i, 2) * Minor(A.n, 2, i),
      A.d * Sign(i, 3) * Minor(A.n, 3, i), A.d * Sign(i, 4) * Minor(A.n, 4, i)>>

\* trans.inverse_matrix(A) = numpy.linalg.inv(A), for a non-singular A:
\* (N/d)^-1 = d * adj(N) / det(N)
inverse_matrix(A) ==
    MkMat(<<AdjRow(A, 1), AdjRow(A, 2), AdjRow(A, 3), AdjRow(A, 4)>>, Det(A))

----------------------------------------------------------------------------
(* rotutils: Translation, Scale, RotationEulerDegrees, RotationQuaternion  *)

\* cos and sin of a whole number of quarter turns, in degrees
Cos(deg) == CASE deg % 360 = 0   -> 1
              [] deg % 360 = 180 -> -1
              [] OTHER           -> 0

Sin(deg) == CASE deg % 360 = 90  -> 1
              [] deg % 360 = 270 -> -1
              [] OTHER           -> 0

RotX(a) == IntMat(<< <<1, 0, 0, 0>>, <<0, Cos(a), -Sin(a), 0>>,
                     <<0, Sin(a), Cos(a), 0>>, <<0, 0, 0, 1>> >>)

RotY(a) == IntMat(<< <<Cos(a), 0, Sin(a), 0>>, <<0, 1, 0, 0>>,
                     <<-Sin(a), 0, Cos(a), 0>>, <<0, 0, 0, 1>> >>)

RotZ(a) == IntMat(<< <<Cos(a), -Sin(a), 0, 0>>, <<Sin(a), Cos(a), 0, 0>>,
                     <<0, 0, 1, 0>>, <<0, 0, 0, 1>> >>)

\* RotationEulerDegrees(x, y, z).to_matrix(): intrinsic X, then Y, then Z
EulerToMatrix(v) == Dot(Dot(RotX(v[1]), RotY(v[2])), RotZ(v[3]))

\* RotationQuaternion(x, y, z, w).to_matrix(): the quaternion is normalised
\* by its squared norm inside the conversion
QuatToMatrix(q) ==
    LET x == q[1]
        y == q[2]
        z == q[3]
        w == q[4]
        nn == x * x + y * y + z * z + w * w
    IN  MkMat(<< <<nn - 2 * (y * y + z * z), 2 * (x * y - z * w), 2 * (x * z + y * w), 0>>,
                 <<2 * (x * y + z * w), nn - 2 * (x * x + z * z), 2 * (y * z - x * w), 0>>,
                 <<2 * (x * z - y * w), 2 * (y * z + x * w), nn - 2 * (x * x + y * y), 0>>,
                 <<0, 0, 0, nn>> >>, nn)

\* rot.to_matrix()
RotationToMatrix(r) == IF r.kind = "euler" THEN EulerToMatrix(r.v) ELSE QuatToMatrix(r.v)

\* pos.to_matrix(): the three components in the last column
TranslationToMatrix(p) ==
    IntMat(<< <<1, 0, 0, p[1]>>, <<0, 1, 0, p[2]>>, <<0, 0, 1, p[3]>>, <<0, 0, 0, 1>> >>)

\* scale.to_matrix(): one factor for the three axes, or one factor per axis
ScaleToMatrix(s) ==
    LET f == IF Len(s) = 1 THEN <<s[1], s[1], s[1]>> ELSE s
    IN  IntMat(<< <<f[1], 0, 0, 0>>, <<0, f[2], 0, 0>>, <<0, 0, f[3], 0>>, <<0, 0, 0, 1>> >>)

RotationEulerDegrees(v) == [kind |-> "euler", v |-> v]

RotationQuaternion(v) == [kind |-> "quat", v |-> v]

----------------------------------------------------------------------------
(* Values the callers pass. An argument is [t, kind, v]: a sequence        *)
(* (t = "seq"), a number (t = "scalar", v = <<number>>) or an instance of  *)
(* the rotutils class (t = "inst").                                        *)

SeqArg(v) == [t |-> "seq", kind |-> "-", v |-> v]

ScalarArg(x) == [t |-> "scalar", kind |-> "-", v |-> <<x>>]

InstArg(kind, v) == [t |-> "inst", kind |-> kind, v |-> v]

NoArg == [t |-> "none", kind |-> "-", v |-> <<>>]

\* arguments of the setters in the life of one node
PosArgs == {SeqArg(<<1, 0, 0>>), SeqArg(<<5, 0, 0>>)}

RotArgs == {SeqArg(<<0, 0, 90>>), SeqArg(<<0, 0, 1, 0>>), SeqArg(<<0, 90>>),
            SeqArg(<<0, 0, 0, 90, 0>>), ScalarArg(90), InstArg("euler", <<90, 0, 0>>)}

ScaleArgs == {ScalarArg(2), ScalarArg(0), SeqArg(<<1, 2, 1>>)}

\* arguments of the constructor: position, rotation, scale (a number)
CtorPos == {<<0, 0, 0>>, <<1, 0, 0>>}

CtorRot == {<<0, 0, 0>>, <<0, 0, 90>>, <<0, 0, 1, 0>>}

CtorScale == {1, 2}

\* arguments of the setters in the scene of three nodes
ScenePosArgs == {SeqArg(<<5, 0, 0>>)}

SceneRotArgs == {SeqArg(<<0, 0, 1, 0>>)}

SceneScaleArgs == {ScalarArg(0)}

----------------------------------------------------------------------------
(* State                                                                   *)

VARIABLES
    alive,                  \* the nodes constructed so far
    pos, rot, scale,        \* Physical._pos, _rot, _scale of each node
    parent,                 \* SceneNode.parent of each node (None for a root)
    model_matrix, view_matrix, normal_matrix,
    model_matrix_global, normal_matrix_global, view_matrix_global,
    pass,                   \* the per-frame propagation pass: idle, running, complete, aborted
    queue,                  \* the nodes the running pass has still to update
    last,                   \* the call that produced this state
    former,                 \* the parent each node had before its last reparenting
    ops                     \* setter and reparenting calls made so far

prims == <<pos, rot, scale>>
locals == <<model_matrix, view_matrix, normal_matrix>>
globals == <<model_matrix_global, normal_matrix_global, view_matrix_global>>
vars == <<alive, pos, rot, scale, parent, model_matrix, view_matrix, normal_matrix,
          model_matrix_global, normal_matrix_global, view_matrix_global,
          pass, queue, last, former, ops>>

Call(op, n, ok, arg) == [op |-> op, node |-> n, ok |-> ok, arg |-> arg]

\* the six matrices of node n
Mats(n) ==
    [model |-> model_matrix[n], view |-> view_matrix[n], normal |-> normal_matrix[n],
     gmodel |-> model_matrix_global[n], gnormal |-> normal_matrix_global[n],
     gview |-> view_matrix_global[n]]

\* the matrices PhysicalNode.__init__ and Physical.__init__ allocate
ZeroMats ==
    [model |-> Zeros, view |-> Zeros, normal |-> Zeros,
     gmodel |-> Zeros, gnormal |-> Zeros, gview |-> Zeros]

----------------------------------------------------------------------------
(* Physical.update and PhysicalNode.update                                 *)

\* (mutant) the view matrix inverted after the scale is applied
ViewAfterScale(m2, oldview, oldnormal) ==
    IF IsSingular(m2)
    THEN [ok |-> FALSE, model |-> m2, view |-> oldview, normal |-> oldnormal]
    ELSE [ok |-> TRUE, model |-> m2, view |-> inverse_matrix(m2),
          normal |-> inverse_matrix(Transpose(m2))]

Physical_update_ViewAfterScale(p, r, s, oldview, oldnormal) ==
    ViewAfterScale(Dot(Dot(TranslationToMatrix(p), RotationToMatrix(r)), ScaleToMatrix(s)),
                   oldview, oldnormal)

\* Physical.update, its last statement: with the scaled model matrix m2
\* stored, normal_matrix = inverse(m2.T), which raises when m2 is singular
NormalStep(m2, view, oldnormal) ==
    IF IsSingular(Transpose(m2))
    THEN [ok |-> FALSE, model |-> m2, view |-> view, normal |-> oldnormal]
    ELSE [ok |-> TRUE, model |-> m2, view |-> view, normal |-> inverse_matrix(Transpose(m2))]

\* its third statement: model_matrix = model_matrix x scale.to_matrix()
ScaleStep(m1, view, s, oldnormal) ==
    NormalStep(Dot(m1, ScaleToMatrix(s)), view, oldnormal)

\* its second statement: with model_matrix = m1 stored, view_matrix =
\* inverse(m1)
ViewStep(m1, s, oldview, oldnormal) ==
    IF IsSingular(m1)
    THEN [ok |-> FALSE, model |-> m1, view |-> oldview, normal |-> oldnormal]
    ELSE ScaleStep(m1, inverse_matrix(m1), s, oldnormal)

\* Physical.update with position p, rotation r, scale s on a node whose view
\* and normal matrices are oldview and oldnormal: the matrices it leaves and
\* whether it returned (ok) or raised out of an inversion. Each assignment
\* made before the raise stays. The first statement is model_matrix =
\* pos.to_matrix() x rot.to_matrix().
Physical_update(p, r, s, oldview, oldnormal) ==
    ViewStep(Dot(TranslationToMatrix(p), RotationToMatrix(r)), s, oldview, oldnormal)

\* (mutant) the parent's local model matrix taken for its global one
ParentModelLocal(pm) == pm.model

\* self.parent.model_matrix_global, of a parent whose matrices are pm
ParentModel(pm) == pm.gmodel

\* (mutant) the operands of the model composition exchanged
ChildGlobalsSwapped(pm, loc) ==
    [model  |-> Dot(loc.model, pm.gmodel),
     normal |-> Dot(pm.gnormal, loc.normal),
     view   |-> Dot(pm.gnormal, loc.normal)]

\* the branch for a node with a parent whose matrices are pm
ChildGlobals(pm, loc) ==
    [model  |-> Dot(ParentModel(pm), loc.model),
     normal |-> Dot(pm.gnormal, loc.normal),
     view   |-> Dot(pm.gnormal, loc.normal)]

\* (mutant) the root branch with the copy-paste slip of the child branch
RootGlobalsNormalAsView(loc) ==
    [model |-> loc.model, normal |-> loc.normal, view |-> loc.normal]

\* the branch for a node without a parent
RootGlobals(loc) ==
    [model |-> loc.model, normal |-> loc.normal, view |-> loc.view]

\* the matrices PhysicalNode.update leaves when Physical.update left loc:
\* the global ones are assigned only if Physical.update returned
SixMatrices(loc, glo) ==
    [ok |-> loc.ok, model |-> loc.model, view |-> loc.view, normal |-> loc.normal,
     gmodel |-> glo.model, gnormal |-> glo.normal, gview |-> glo.view]

OldGlobals(old) == [model |-> old.gmodel, normal |-> old.gnormal, view |-> old.gview]

GlobalStep(loc, old, hasParent, pm) ==
    SixMatrices(loc, IF ~loc.ok THEN OldGlobals(old)
                   ELSE IF hasParent THEN ChildGlobals(pm, loc)
                   ELSE RootGlobals(loc))

\* PhysicalNode.update on a node with position p, rotation r, scale s and
\* matrices old, whose parent (if hasParent) has matrices pm: the six
\* matrices it leaves, and whether it returned
NodeUpdate(p, r, s, old, hasParent, pm) ==
    GlobalStep(Physical_update(p, r, s, old.view, old.normal), old, hasParent, pm)

\* the assignments of u, a result of NodeUpdate, to the matrices of node n
Store(n, u) ==
    /\ model_matrix' = [model_matrix EXCEPT ![n] = u.model]
    /\ view_matrix' = [view_matrix EXCEPT ![n] = u.view]
    /\ normal_matrix' = [normal_matrix EXCEPT ![n] = u.normal]
    /\ model_matrix_global' = [model_matrix_global EXCEPT ![n] = u.gmodel]
    /\ normal_matrix_global' = [normal_matrix_global EXCEPT ![n] = u.gnormal]
    /\ view_matrix_global' = [view_matrix_global EXCEPT ![n] = u.gview]

\* the matrices of the parent of n (unused for a root)
ParentMats(n) == IF parent[n] # None THEN Mats(parent[n]) ELSE ZeroMats

\* what n.update() computes
Updating(n) ==
    NodeUpdate(pos[n], rot[n], scale[n], Mats(n), parent[n] # None, ParentMats(n))

\* (mutant) update() that goes on to recompose the globals of the children
Cascade(n, u) ==
    /\ model_matrix' = [model_matrix EXCEPT ![n] = u.model]
    /\ view_matrix' = [view_matrix EXCEPT ![n] = u.view]
    /\ normal_matrix' = [normal_matrix EXCEPT ![n] = u.normal]
    /\ model_matrix_global' = [c \in Nodes |->
           IF c = n THEN u.gmodel
           ELSE IF parent[c] = n /\ u.ok THEN Dot(u.gmodel, model_matrix[c])
           ELSE model_matrix_global[c]]
    /\ normal_matrix_global' = [normal_matrix_global EXCEPT ![n] = u.gnormal]
    /\ view_matrix_global' = [view_matrix_global EXCEPT ![n] = u.gview]
    /\ last' = Call("update", n, u.ok, NoArg)
    /\ UNCHANGED <<prims, parent, former, alive, ops>>

update_cascade(n) == Cascade(n, Updating(n))

Commit(n, u) ==
    /\ Store(n, u)
    /\ last' = Call("update", n, u.ok, NoArg)
    /\ UNCHANGED <<prims, parent, former, alive, ops>>

\* n.update()
update(n) == Commit(n, Updating(n))

\* position_global: the translation column of model_matrix_global, each
\* component as <<numerator, denominator>> in lowest terms
position_global(n) ==
    LET M == model_matrix_global[n]
        C(i) == LET g == GCD(Abs(M.n[i][4]), M.d) IN <<M.n[i][4] \div g, M.d \div g>>
    IN  <<C(1), C(2), C(3)>>

----------------------------------------------------------------------------
(* Construction                                                            *)

\* (mutant) the constructor choosing the representation by length, as the
\* rot setter does
InitRotByLength(rotation) ==
    IF Len(rotation) = 3
    THEN [ok |-> TRUE, rot |-> [kind |-> "euler", v |-> rotation]]
    ELSE IF Len(rotation) = 4
    THEN [ok |-> TRUE, rot |-> [kind |-> "quat", v |-> rotation]]
    ELSE [ok |-> FALSE, rot |-> [kind |-> "euler", v |-> <<0, 0, 0>>]]

\* self._rot = rotutils.RotationEulerDegrees(*rotation): the class takes
\* three angles, any other number of arguments is a TypeError
InitRot(rotation) ==
    IF Len(rotation) = 3
    THEN [ok |-> TRUE, rot |-> RotationEulerDegrees(rotation)]
    ELSE [ok |-> FALSE, rot |-> RotationEulerDegrees(<<0, 0, 0>>)]

BuiltFrom(position, ir, sc, u) ==
    [ok |-> ir.ok /\ u.ok, pos |-> position, rot |-> ir.rot, scale |-> <<sc>>, mats |-> u]

BuiltWith(position, ir, sc) ==
    BuiltFrom(position, ir, sc, NodeUpdate(position, ir.rot, <<sc>>, ZeroMats, FALSE, ZeroMats))

\* PhysicalNode(position=position, rotation=rotation, scale=sc): the
\* primitives and, after the update() that ends __init__, the matrices
Built(position, rotation, sc) == BuiltWith(position, InitRot(rotation), sc)

Idle == pass # "running"

ConstructFrom(n, b, rotation) ==
    /\ Idle
    /\ n \notin alive
    /\ last' = Call("construct", n, b.ok, SeqArg(rotation))
    /\ pass' = "idle"
    /\ queue' = <<>>
    /\ IF b.ok
       THEN /\ alive' = alive \cup {n}
            /\ pos' = [pos EXCEPT ![n] = b.pos]
            /\ rot' = [rot EXCEPT ![n] = b.rot]
            /\ scale' = [scale EXCEPT ![n] = b.scale]
            /\ Store(n, b.mats)
       ELSE UNCHANGED <<alive, prims, locals, globals>>
    /\ UNCHANGED <<parent, former, ops>>

\* the constructor call for node n; a raise leaves no node
Construct(n, position, rotation, sc) ==
    ConstructFrom(n, Built(position, rotation, sc), rotation)

----------------------------------------------------------------------------
(* The setters of Physical                                                 *)

CanSet(n) == Idle /\ n \in alive /\ ops < MaxOps

Counted == ops' = ops + 1 /\ pass' = "idle" /\ queue' = <<>>

\* (mutant) a pos setter that recomputes the matrices
PosRecompute(n, coords, u) ==
    /\ CanSet(n)
    /\ pos' = [pos EXCEPT ![n] = coords.v]
    /\ Store(n, u)
    /\ last' = Call("pos", n, TRUE, NoArg)
    /\ Counted
    /\ UNCHANGED <<rot, scale, parent, former, alive>>

set_pos_recompute(n, coords) ==
    PosRecompute(n, coords,
                 NodeUpdate(coords.v, rot[n], scale[n], Mats(n), parent[n] # None, ParentMats(n)))

\* pos setter: a Translation is stored, anything else goes through
\* Translation(*coords)
set_pos(n, coords) ==
    /\ CanSet(n)
    /\ pos' = [pos EXCEPT ![n] = coords.v]
    /\ last' = Call("pos", n, TRUE, NoArg)
    /\ Counted
    /\ UNCHANGED <<rot, scale, parent, former, alive, locals, globals>>

\* rot setter: what it stores for coords, and whether it raised
RotSetter(old, coords) ==
    IF coords.t = "inst"
    THEN [ok |-> TRUE, rot |-> [kind |-> coords.kind, v |-> coords.v]]
    ELSE IF coords.t = "seq"
    THEN IF Len(coords.v) = 3
         THEN [ok |-> TRUE, rot |-> RotationEulerDegrees(coords.v)]
         ELSE IF Len(coords.v) = 4
         THEN [ok |-> TRUE, rot |-> RotationQuaternion(coords.v)]
         ELSE [ok |-> TRUE, rot |-> old]
    ELSE [ok |-> FALSE, rot |-> old]

set_rot(n, coords) ==
    LET r == RotSetter(rot[n], coords)
    IN  /\ CanSet(n)
        /\ rot' = [rot EXCEPT ![n] = r.rot]
        /\ last' = Call("rot", n, r.ok, coords)
        /\ Counted
        /\ UNCHANGED <<pos, scale, parent, former, alive, locals, globals>>

\* scale setter: a Scale is stored, an iterable goes through Scale(*coords),
\* a number through Scale(coords)
set_scale(n, coords) ==
    /\ CanSet(n)
    /\ scale' = [scale EXCEPT ![n] = coords.v]
    /\ last' = Call("scale", n, TRUE, NoArg)
    /\ Counted
    /\ UNCHANGED <<pos, rot, parent, former, alive, locals, globals>>

----------------------------------------------------------------------------
(* SceneNode: the parent link                                              *)

RECURSIVE Ancestors(_)
Ancestors(n) == IF parent[n] = None THEN {} ELSE {parent[n]} \cup Ancestors(parent[n])

\* n.parent = p (p = None detaches n). A parent that is n itself or one of
\* its descendants is refused with CyclicParentError.
set_parent(n, p) ==
    LET ok == p = None \/ (p # n /\ n \notin Ancestors(p))
    IN  /\ CanSet(n)
        /\ p \in alive \cup {None}
        /\ parent' = [parent EXCEPT ![n] = IF ok THEN p ELSE @]
        /\ former' = [former EXCEPT ![n] = IF ok THEN parent[n] ELSE @]
        /\ last' = Call("parent", n, ok, NoArg)
        /\ Counted
        /\ UNCHANGED <<prims, alive, locals, globals>>

----------------------------------------------------------------------------
(* Calls of update(): one node at a time, or the per-frame pass            *)

CallUpdate(n) ==
    /\ Idle
    /\ n \in alive
    /\ update(n)
    /\ pass' = "idle"
    /\ queue' = <<>>

Children(n) == {c \in alive : parent[c] = n}

RECURSIVE Ascending(_)
Ascending(S) ==
    IF S = {} THEN <<>>
    ELSE LET m == CHOOSE x \in S : \A y \in S : x <= y
         IN  <<m>> \o Ascending(S \ {m})

RECURSIVE Visit(_)
RECURSIVE VisitEach(_)
\* a node, then its children, recursively
Visit(n) == <<n>> \o VisitEach(Ascending(Children(n)))
VisitEach(q) == IF q = <<>> THEN <<>> ELSE Visit(Head(q)) \o VisitEach(Tail(q))

\* every root first, then recursively the children
TopDown == VisitEach(Ascending({n \in alive : parent[n] = None}))

\* the pass starts
BeginFrame ==
    /\ Idle
    /\ alive # {}
    /\ pass' = "running"
    /\ queue' = TopDown
    /\ last' = Call("frame", None, TRUE, NoArg)
    /\ UNCHANGED <<alive, prims, parent, former, ops, locals, globals>>

\* the pass updates its next node; a raise ends the pass
FrameStep ==
    /\ pass = "running"
    /\ update(Head(queue))
    /\ queue' = IF last'.ok THEN Tail(queue) ELSE <<>>
    /\ pass' = IF ~last'.ok THEN "aborted"
               ELSE IF Tail(queue) = <<>> THEN "complete" ELSE "running"

----------------------------------------------------------------------------
(* The scene of three nodes: Spec                                          *)

\* the constructor arguments of the three nodes of the scene
SceneArgs(n) ==
    CASE n = 1 -> [position |-> <<0, 0, 0>>, rotation |-> <<0, 0, 0>>, scale |-> 1]
      [] n = 2 -> [position |-> <<1, 0, 0>>, rotation |-> <<0, 0, 90>>, scale |-> 2]
      [] OTHER -> [position |-> <<1, 0, 0>>, rotation |-> <<0, 0, 0>>, scale |-> 1]

SceneBuilt(n) == Built(SceneArgs(n).position, SceneArgs(n).rotation, SceneArgs(n).scale)

Unused ==
    /\ pass = "idle"
    /\ queue = <<>>
    /\ last = Call("none", None, TRUE, NoArg)
    /\ parent = [n \in Nodes |-> None]
    /\ former = [n \in Nodes |-> None]
    /\ ops = 0

\* the nodes hold what the constructor calls b left
InitFrom(b) ==
    /\ alive = Nodes
    /\ pos = [n \in Nodes |-> b[n].pos]
    /\ rot = [n \in Nodes |-> b[n].rot]
    /\ scale = [n \in Nodes |-> b[n].scale]
    /\ model_matrix = [n \in Nodes |-> b[n].mats.model]
    /\ view_matrix = [n \in Nodes |-> b[n].mats.view]
    /\ normal_matrix = [n \in Nodes |-> b[n].mats.normal]
    /\ model_matrix_global = [n \in Nodes |-> b[n].mats.gmodel]
    /\ normal_matrix_global = [n \in Nodes |-> b[n].mats.gnormal]
    /\ view_matrix_global = [n \in Nodes |-> b[n].mats.gview]
    /\ Unused

\* the three nodes constructed, none with a parent
Init == InitFrom(<<SceneBuilt(1), SceneBuilt(2), SceneBuilt(3)>>)

Next ==
    \/ \E n \in Nodes, a \in ScenePosArgs : set_pos(n, a)
    \/ \E n \in Nodes, a \in SceneRotArgs : set_rot(n, a)
    \/ \E n \in Nodes, a \in SceneScaleArgs : set_scale(n, a)
    \/ \E n \in Nodes, p \in Nodes \cup {None} : set_parent(n, p)
    \/ \E n \in Nodes : CallUpdate(n)
    \/ BeginFrame
    \/ FrameStep

Spec == Init /\ [][Next]_vars

----------------------------------------------------------------------------
(* The life of one node: SpecNode                                          *)

\* the node whose life SpecNode follows
Lone == {1}

\* before any constructor call
InitNode ==
    /\ alive = {}
    /\ pos = [n \in Nodes |-> <<0, 0, 0>>]
    /\ rot = [n \in Nodes |-> RotationEulerDegrees(<<0, 0, 0>>)]
    /\ scale = [n \in Nodes |-> <<1>>]
    /\ model_matrix = [n \in Nodes |-> Zeros]
    /\ view_matrix = [n \in Nodes |-> Zeros]
    /\ normal_matrix = [n \in Nodes |-> Zeros]
    /\ model_matrix_global = [n \in Nodes |-> Zeros]
    /\ normal_matrix_global = [n \in Nodes |-> Zeros]
    /\ view_matrix_global = [n \in Nodes |-> Zeros]
    /\ Unused

NextNode ==
    \/ \E n \in Lone, p \in CtorPos, r \in CtorRot, s \in CtorScale : Construct(n, p, r, s)
    \/ \E n \in Lone, a \in PosArgs : set_pos(n, a)
    \/ \E n \in Lone, a \in RotArgs : set_rot(n, a)
    \/ \E n \in Lone, a \in ScaleArgs : set_scale(n, a)
    \/ \E n \in Lone : CallUpdate(n)

SpecNode == InitNode /\ [][NextNode]_vars

----------------------------------------------------------------------------
(* Properties                                                              *)

\* n.update() has just returned
Updated(n) == last.op = "update" /\ last.node = n /\ last.ok

\* position.to_matrix() x rotation.to_matrix() of node n, from its primitives
PreScale(n) == Dot(TranslationToMatrix(pos[n]), RotationToMatrix(rot[n]))

\* the model matrix of node n, from its primitives
LocalModel(n) == Dot(PreScale(n), ScaleToMatrix(scale[n]))

\* C1: after update() returns on a node with a parent, model_matrix_global
\* is the current parent's model_matrix_global times the node's model_matrix.
C1_GlobalModelFromCurrentParent ==
    \A n \in Nodes :
        (Updated(n) /\ parent[n] # None) =>
            model_matrix_global[n] = Dot(model_matrix_global[parent[n]], model_matrix[n])

\* C1 witness: a node moved from one parent to another with a non-identity
\* transform was updated, and the former parent's matrix would give another
\* result.
C1_Witness ==
    \E n \in Nodes :
        /\ Updated(n)
        /\ parent[n] # None
        /\ former[n] \notin {None, parent[n]}
        /\ model_matrix_global[parent[n]] # Eye
        /\ model_matrix_global[n] # Dot(model_matrix_global[former[n]], model_matrix[n])

\* C2: after update() returns on a node with a parent, view_matrix_global is
\* the inverse of the node's pre-scale global model matrix. The pre-scale
\* global model is read in each of three ways: the parent's global model
\* times the node's pre-scale model, the composition of the pre-scale models
\* down the chain (whose inverse is view_matrix x the parent's global view),
\* or model_matrix_global itself.
C2_GlobalViewInvertsGlobalModel ==
    \A n \in Nodes :
        (Updated(n) /\ parent[n] # None) =>
            \/ Dot(view_matrix_global[n],
                   Dot(model_matrix_global[parent[n]], PreScale(n))) = Eye
            \/ view_matrix_global[n] = Dot(view_matrix[n], view_matrix_global[parent[n]])
            \/ Dot(view_matrix_global[n], model_matrix_global[n]) = Eye

RECURSIVE Composed(_)
\* the local model matrices of the chain from the root down to n, multiplied
Composed(n) ==
    IF parent[n] = None THEN LocalModel(n) ELSE Dot(Composed(parent[n]), LocalModel(n))

\* the nodes the pass has updated
Passed == {n \in alive : \A i \in 1..Len(queue) : queue[i] # n}

Whole(v) == << <<v[1], 1>>, <<v[2], 1>>, <<v[3], 1>> >>

\* C3: in a pass, a node is updated after its parent, and what the pass
\* leaves in model_matrix_global is the composition of the current local
\* matrices down the chain; a child at (1,0,0) of an unrotated, unscaled
\* root at (5,0,0) ends at (6,0,0).
C3_PassUpdatesParentsFirst ==
    pass \in {"running", "complete"} =>
        \A c \in Passed :
            /\ parent[c] # None => parent[c] \in Passed
            /\ model_matrix_global[c] = Composed(c)
            /\ ( /\ pass = "complete"
                 /\ parent[c] # None
                 /\ parent[parent[c]] = None
                 /\ LocalModel(parent[c]) = TranslationToMatrix(<<5, 0, 0>>)
                 /\ LocalModel(c) = TranslationToMatrix(<<1, 0, 0>>) )
               => position_global(c) = Whole(<<6, 0, 0>>)

\* C3 witness: a pass completed over an unrotated, unscaled root moved to
\* (5,0,0) and its child at (1,0,0), and left the child at (6,0,0).
C3_Witness ==
    \E c \in Nodes :
        /\ pass = "complete"
        /\ parent[c] # None
        /\ parent[parent[c]] = None
        /\ LocalModel(parent[c]) = TranslationToMatrix(<<5, 0, 0>>)
        /\ LocalModel(c) = TranslationToMatrix(<<1, 0, 0>>)
        /\ position_global(c) = Whole(<<6, 0, 0>>)

\* C4: an update() that fails leaves model_matrix, view_matrix and
\* normal_matrix of the node as they were before the call.
C4_FailedUpdateChangesNothing ==
    [][\A n \in Nodes :
          (last'.op = "update" /\ last'.node = n /\ ~last'.ok) =>
              /\ model_matrix'[n] = model_matrix[n]
              /\ view_matrix'[n] = view_matrix[n]
              /\ normal_matrix'[n] = normal_matrix[n]]_vars

\* C5: a rotation assignment of a sequence of length 3 stores an
\* Euler-degrees rotation, of length 4 a Quaternion rotation, and of any
\* other length is rejected with an error.
C5_BadArityRejected ==
    (last.op = "rot" /\ last.arg.t = "seq") =>
        /\ Len(last.arg.v) = 3 => (last.ok /\ rot[last.node] = RotationEulerDegrees(last.arg.v))
        /\ Len(last.arg.v) = 4 => (last.ok /\ rot[last.node] = RotationQuaternion(last.arg.v))
        /\ Len(last.arg.v) \notin {3, 4} => ~last.ok

\* C6: a call of the pos, rot or scale setter changes none of the six
\* matrices of any node.
C6_SettersLeaveMatrices ==
    [][last'.op \in {"pos", "rot", "scale"} => UNCHANGED <<locals, globals>>]_vars

\* C6 witness: a setter has changed a primitive and the node's model matrix
\* is still the one of the last update().
C6_Witness ==
    \E n \in alive :
        /\ last.op \in {"pos", "rot", "scale"}
        /\ last.node = n
        /\ model_matrix[n] # LocalModel(n)

\* C7: after update() returns on a node without a parent, the three global
\* matrices equal the local ones.
C7_RootGlobalsEqualLocals ==
    \A n \in Nodes :
        (Updated(n) /\ parent[n] = None) =>
            /\ model_matrix_global[n] = model_matrix[n]
            /\ normal_matrix_global[n] = normal_matrix[n]
            /\ view_matrix_global[n] = view_matrix[n]

\* C7 witness: a node that was detached from a parent was updated, and its
\* view and normal matrices differ.
C7_Witness ==
    \E n \in Nodes :
        /\ Updated(n)
        /\ parent[n] = None
        /\ former[n] # None
        /\ view_matrix[n] # normal_matrix[n]
        /\ model_matrix[n] # Eye

\* C8 as claimed: the constructor gives an Euler-degrees rotation for a
\* 3-tuple and a Quaternion rotation for a 4-tuple, with the same values.
C8_CtorSelectsByLength ==
    last.op = "construct" =>
        /\ Len(last.arg.v) = 3 =>
               (last.ok /\ rot[last.node] = RotationEulerDegrees(last.arg.v))
        /\ Len(last.arg.v) = 4 =>
               (last.ok /\ rot[last.node] = RotationQuaternion(last.arg.v))

\* C8 as amended: the constructor gives an Euler-degrees rotation with the
\* same values for a 3-tuple, and a node it returns never has a Quaternion
\* rotation, whatever the length of the argument.
C8_CtorAlwaysEuler ==
    last.op = "construct" =>
        /\ Len(last.arg.v) = 3 =>
               (last.ok /\ rot[last.node] = RotationEulerDegrees(last.arg.v))
        /\ last.ok => rot[last.node].kind = "euler"

\* C8 witness: a node constructed with a 3-tuple other than the default.
C8_Witness ==
    /\ last.op = "construct"
    /\ last.ok
    /\ last.arg.v = <<0, 0, 90>>
    /\ rot[last.node] = RotationEulerDegrees(<<0, 0, 90>>)

\* C9: after update() returns, view_matrix is the inverse of
\* position.to_matrix() x rotation.to_matrix() whatever the scale: it is the
\* view matrix of a node with the same position and rotation and scale 1,
\* while model_matrix carries the scale (view_matrix x model_matrix is the
\* scale matrix).
C9_ViewIsPreScaleInverse ==
    \A n \in Nodes :
        Updated(n) =>
            /\ Dot(view_matrix[n], PreScale(n)) = Eye
            /\ Dot(PreScale(n), view_matrix[n]) = Eye
            /\ view_matrix[n] = Physical_update(pos[n], rot[n], <<1>>, Zeros, Zeros).view
            /\ Dot(view_matrix[n], model_matrix[n]) = ScaleToMatrix(scale[n])

\* C9 witness: a node with a scale other than 1, moved and turned, was
\* updated.
C9_Witness ==
    \E n \in Nodes :
        /\ Updated(n)
        /\ ScaleToMatrix(scale[n]) # Eye
        /\ pos[n] # <<0, 0, 0>>
        /\ RotationToMatrix(rot[n]) # Eye

\* C10: a call of update() on a node changes no primitive, no parent link
\* and no matrix of any other node.
C10_UpdateWritesOwnMatricesOnly ==
    [][last'.op = "update" =>
          /\ UNCHANGED <<prims, parent>>
          /\ \A m \in Nodes \ {last'.node} :
                /\ model_matrix'[m] = model_matrix[m]
                /\ view_matrix'[m] = view_matrix[m]
                /\ normal_matrix'[m] = normal_matrix[m]
                /\ model_matrix_global'[m] = model_matrix_global[m]
                /\ normal_matrix_global'[m] = normal_matrix_global[m]
                /\ view_matrix_global'[m] = view_matrix_global[m]]_vars

\* C10 witness: a parent was updated and the global model matrix of its child
\* is not the composition with the parent's current one.
C10_Witness ==
    \E c \in Nodes :
        /\ parent[c] # None
        /\ Updated(parent[c])
        /\ model_matrix_global[c] # Dot(model_matrix_global[parent[c]], model_matrix[c])

====
